---- MODULE Spec2Model ----
(***************************************************************************)
(* Model of chain_detector.py: the finding store (tables findings and      *)
(* chains of bugbounty.db), one run of main() at a time, and the external  *)
(* analysis capability as a nondeterministic source of responses.          *)
(*                                                                         *)
(* Text values (TEXT columns built with ','.join) are sequences of tokens: *)
(* a decimal digit, a comma, or a severity word.                           *)
(***************************************************************************)
EXTENDS Integers, Sequences, FiniteSets, TLC

(***************************************************************************)
(* Bounds of the model                                                     *)
(***************************************************************************)
\* largest value of --min-findings that a run is started with
MaxMinFindings == 3
\* most rows of the findings table in the stores of SpecFetch
MaxFindings == 3
\* most hosts in the stores of SpecBatch
MaxBatchHosts == 11
\* a run starts only while fewer than this many analysis calls were made
MaxCalls == 2
\* most chains one run collects from the analysis responses
MaxAllChains == 2
\* the clock stops at this time
MaxClock == 1

(***************************************************************************)
(* Program constants                                                       *)
(***************************************************************************)
batch_size == 5

Targets == {"acme.io", "other.io"}
HostNames == <<"A", "B", "C", "D", "E", "F", "G", "H", "I", "J", "K", "L", "M">>

Min(a, b) == IF a < b THEN a ELSE b

(***************************************************************************)
(* Text helpers: str(int) and ','.join                                     *)
(***************************************************************************)
Digits == <<"0", "1", "2", "3", "4", "5", "6", "7", "8", "9">>

RECURSIVE Str(_)
Str(n) == IF n < 10 THEN <<Digits[n + 1]>>
          ELSE Str(n \div 10) \o <<Digits[(n % 10) + 1]>>

RECURSIVE Join(_)
Join(parts) == IF parts = <<>> THEN <<>>
               ELSE IF Len(parts) = 1 THEN parts[1]
               ELSE parts[1] \o <<",">> \o Join(Tail(parts))

\* [str(f) for f in ids]
StrEach(ids) == [j \in 1..Len(ids) |-> Str(ids[j])]
\* a list of str as a list of one-token texts
WordEach(words) == [j \in 1..Len(words) |-> <<words[j]>>]

(***************************************************************************)
(* fetch_all_findings                                                      *)
(***************************************************************************)
Front(s) == SubSeq(s, 1, Len(s) - 1)

\* the SELECT ... WHERE target = ? AND status = 'triaged'
IsEligible(row, target) == row.target = target /\ row.status = "triaged"

SelectRows(tbl, target) == SelectSeq(tbl, LAMBDA row : IsEligible(row, target))

\* the grouping loop: a dict in insertion order, as its list of items
RECURSIVE GroupByHost(_)
GroupByHost(rows) ==
    IF rows = <<>> THEN <<>>
    ELSE LET prev == GroupByHost(Front(rows))
             r == rows[Len(rows)]
         IN IF \E j \in 1..Len(prev) : prev[j].host = r.host
            THEN LET j == CHOOSE j \in 1..Len(prev) : prev[j].host = r.host
                 IN [prev EXCEPT ![j].findings = Append(@, r.id)]
            ELSE Append(prev, [host |-> r.host, findings |-> <<r.id>>])

\* a filter that also drops the hosts with exactly min_findings findings
KeepsHost_Strict(item, min_findings) == Len(item.findings) > min_findings

\* the dict comprehension that drops hosts with too few findings
KeepsHost(item, min_findings) == Len(item.findings) >= min_findings

FilterHosts(items, min_findings) ==
    SelectSeq(items, LAMBDA item : KeepsHost(item, min_findings))

FetchAllFindings(tbl, target, min_findings) ==
    FilterHosts(GroupByHost(SelectRows(tbl, target)), min_findings)

(***************************************************************************)
(* State                                                                   *)
(***************************************************************************)
VARIABLES
    findings,          \* table findings: rows [id, target, host, status]
    chains_table,      \* table chains, committed rows in rowid order
    txn,               \* rows inserted on the open connection, not committed
    pc,                \* position of the run of main()
    args,              \* parsed command line
    findings_by_host,  \* result of fetch_all_findings, as list(items())
    i,                 \* loop variable of the batch loop
    batch,             \* host_items[i:i+batch_size]
    all_chains,        \* chains collected by analyze_vulnerability_chains
    k,                 \* 1-based position of the insert loop in chains
    count,             \* count of update_database_with_chains
    exit_code,         \* value main() returned to sys.exit, -1 while running
    calls,             \* analysis calls made so far
    blog,              \* history: one entry per batch dispatched in this run
    saved,             \* history: per chain of this run, did its INSERT run
    base,              \* history: rows of chains_table when the run started
    json_file,         \* chain_analysis.json: <<>> or <<document>>
    report_file,       \* chain_analysis_report.md: <<>> or <<document>>
    roi_log,           \* lines analyze_chain_roi logged in this run
    credential,        \* OPENAI_API_KEY of the run: valid, invalid or missing
    now,               \* datetime.now() of the run
    interrupted        \* position at which the run got KeyboardInterrupt, or ""

outs == <<json_file, report_file, roi_log>>

env == <<credential, now, interrupted>>

vars == <<findings, chains_table, txn, pc, args, findings_by_host, i, batch,
          all_chains, k, count, exit_code, calls, blog, saved, base, outs, env>>

(***************************************************************************)
(* The analysis capability: candidate chains and response payloads         *)
(***************************************************************************)
\* JSON null inside original_severities
Null == "<null>"

\* a chain object of a response, each field as chain.get(field, default)
\* returns it (a missing key reads as its default)
Chain(host, ids, sevs, combined) ==
    [kind |-> "dict", host |-> host, finding_ids |-> ids,
     original_severities |-> sevs, combined_severity |-> combined, ch |-> ""]

\* an element that is a one-character string, not an object
CharItem(c) ==
    [kind |-> "str", host |-> "", finding_ids |-> <<>>,
     original_severities |-> <<>>, combined_severity |-> "", ch |-> c]

ChainGood == Chain("A", <<1, 2>>, <<"low", "med">>, "high")
ChainUpper == Chain("A", <<2, 1>>, <<"low", "med", "high">>, "HIGH")
ChainUnknownId == Chain("A", <<1, 99>>, <<"low", "low">>, "medium")
ChainTooFew == Chain("A", <<1>>, <<"low">>, "critical")
ChainBadSeverity == Chain("A", <<1, 2>>, <<"low", "med">>, "informational")
ChainNullSeverity == Chain("A", <<1, 2>>, <<"low", Null>>, "high")

\* "combined_severity": null
ChainNullCombined == Chain("A", <<1, 2>>, <<"low", "med">>, Null)

CandidatePool == {ChainGood, ChainUpper, ChainUnknownId, ChainTooFew,
                  ChainBadSeverity, ChainNullSeverity}

CandSeqs == UNION {[1..n -> CandidatePool] : n \in 0..MaxAllChains}

\* a JSON value under the key "chains" or "results"
JMissing == [jt |-> "missing", items |-> <<>>]
JList(items) == [jt |-> "list", items |-> items]
JString == [jt |-> "str", items |-> <<CharItem("a"), CharItem("b")>>]
JNumber == [jt |-> "num", items |-> <<>>]

\* outcomes of client.chat.completions.create and of the content it returns
Response(t, items, chains, results) ==
    [t |-> t, items |-> items, chains |-> chains, results |-> results]
TransportError == Response("error", <<>>, JMissing, JMissing)
\* create() raising AuthenticationError: the api key is not accepted
AuthFailure == Response("auth", <<>>, JMissing, JMissing)
NonJson == Response("text", <<>>, JMissing, JMissing)
JsonScalar == Response("scalar", <<>>, JMissing, JMissing)
BareArray(items) == Response("array", items, JMissing, JMissing)
Object(chains, results) == Response("object", <<>>, chains, results)

ResponsePool ==
    {TransportError, NonJson, JsonScalar,
     Object(JMissing, JMissing), Object(JString, JMissing), Object(JNumber, JMissing)}
    \cup {BareArray(items) : items \in CandSeqs}
    \cup {Object(JList(items), JMissing) : items \in CandSeqs}
    \cup {Object(JMissing, JList(items)) : items \in CandSeqs}
    \cup {Object(JList(<<>>), JList(items)) : items \in CandSeqs}

\* responses with a chain whose combined_severity is null
NullSeverityResponses ==
    {Object(JList(items), JMissing) :
        items \in {<<ChainNullCombined>>, <<ChainNullCombined, ChainGood>>,
                   <<ChainGood, ChainNullCombined>>}}

(***************************************************************************)
(* analyze_vulnerability_chains: the body of the try block                 *)
(***************************************************************************)
\* Python truth value of a JSON value
Truthy(v) == \/ v.jt \in {"list", "str"} /\ v.items # <<>>
             \/ v.jt = "num"

\* result.get("chains", []), then the fallback to "results"
PickChains(r) ==
    LET chains == IF r.chains.jt = "missing" THEN JList(<<>>) ELSE r.chains
    IN IF ~Truthy(chains) /\ r.results.jt # "missing" THEN r.results ELSE chains

\* does the try block raise: create() fails, json.loads fails, result has no
\* .get (a list or a scalar), or all_chains.extend gets a non-iterable
Raises(r) == \/ r.t \in {"error", "auth", "text", "scalar", "array"}
             \/ r.t = "object" /\ PickChains(r).jt \notin {"list", "str"}

\* what all_chains.extend adds for this response
Extracted(r) == IF Raises(r) THEN <<>> ELSE PickChains(r).items

(***************************************************************************)
(* update_database_with_chains: one iteration of the insert loop           *)
(***************************************************************************)
\* does the try block of the loop raise: chain.get on a str, or ','.join
\* over a list that holds a non-string
InsertRaises(chain) ==
    \/ chain.kind # "dict"
    \/ \E j \in 1..Len(chain.original_severities) :
           chain.original_severities[j] = Null

\* the row the INSERT statement writes
ChainRow(chain, target) ==
    [target |-> target,
     host |-> chain.host,
     finding_ids |-> Join(StrEach(chain.finding_ids)),
     original_severities |-> Join(WordEach(chain.original_severities)),
     combined_severity |-> chain.combined_severity]

(***************************************************************************)
(* Stores the runs start from                                              *)
(***************************************************************************)
Finding(id, target, host, status) ==
    [id |-> id, target |-> target, host |-> host, status |-> status]

\* the scenario store: findings 1 and 2 on host A, finding 3 on host B
StoreScenario ==
    <<Finding(1, "acme.io", "A", "triaged"),
      Finding(2, "acme.io", "A", "triaged"),
      Finding(3, "acme.io", "B", "triaged")>>

StoreMixed ==
    StoreScenario \o
    <<Finding(4, "other.io", "A", "triaged"),
      Finding(5, "other.io", "A", "triaged"),
      Finding(6, "acme.io", "B", "new")>>

\* n hosts with one triaged finding each; the rows visit the hosts in the
\* order of HostNames rotated by r, or in the reverse of that order
StoreWide(n, r, rev) ==
    [j \in 1..n |->
        Finding(j, "acme.io",
                HostNames[(((IF rev THEN n - j ELSE j - 1) + r) % n) + 1],
                "triaged")]

WideStores(maxHosts) ==
    {<<>>} \cup {StoreWide(n, r, rev) : n \in 1..maxHosts, r \in {0, 1, 3}, rev \in BOOLEAN}

\* every table of up to maxRows rows with ids 1..n
SmallStores(maxRows) ==
    UNION {{[j \in 1..n |-> Finding(j, f[j].target, f[j].host, f[j].status)] :
               f \in [1..n -> [target : Targets, host : {"A", "B"},
                               status : {"triaged", "new"}]]} :
           n \in 0..maxRows}

ArgSets == [target : Targets \cup {""}, min_findings : 1..MaxMinFindings,
            list : BOOLEAN]

InitRun ==
    /\ chains_table = <<>>
    /\ txn = <<>>
    /\ pc = "idle"
    /\ args = [target |-> "", min_findings |-> 2, list |-> FALSE]
    /\ findings_by_host = <<>>
    /\ i = 0
    /\ batch = <<>>
    /\ all_chains = <<>>
    /\ k = 0
    /\ count = 0
    /\ exit_code = -1
    /\ calls = 0
    /\ blog = <<>>
    /\ saved = <<>>
    /\ base = 0
    /\ json_file = <<>>
    /\ report_file = <<>>
    /\ roi_log = <<>>
    /\ credential = "valid"
    /\ now = 0
    /\ interrupted = ""

Init == findings \in {StoreScenario, StoreMixed, StoreWide(batch_size + 1, 0, FALSE)}
        /\ InitRun

InitFetch == findings \in SmallStores(MaxFindings) /\ InitRun

InitBatch == findings \in WideStores(MaxBatchHosts) /\ InitRun

(***************************************************************************)
(* main()                                                                  *)
(***************************************************************************)
\* main() returns code
Return(code) == pc' = "done" /\ exit_code' = code

Credentials == {"valid", "invalid", "missing"}

\* the process starts: the module-level client initialisation (OpenAI()
\* raises without an api key, and the script exits with 1), then
\* parse_arguments, --list, the target check
StartRun ==
    /\ pc \in {"idle", "done"}
    /\ calls < MaxCalls
    /\ \E a \in ArgSets, c \in Credentials :
        /\ args' = a
        /\ credential' = c
        /\ IF c = "missing" THEN Return(1)
           ELSE IF a.list THEN Return(0)
           ELSE IF a.target = "" THEN Return(1)
           ELSE pc' = "fetch" /\ exit_code' = -1
    /\ interrupted' = ""
    /\ findings_by_host' = <<>>
    /\ i' = 0
    /\ batch' = <<>>
    /\ all_chains' = <<>>
    /\ k' = 0
    /\ count' = 0
    /\ txn' = <<>>
    /\ blog' = <<>>
    /\ saved' = <<>>
    /\ base' = Len(chains_table)
    /\ roi_log' = <<>>
    /\ UNCHANGED <<findings, chains_table, calls, json_file, report_file, now>>

\* findings_by_host = fetch_all_findings(target); return 1 when it is empty
FetchFindings ==
    /\ pc = "fetch"
    /\ findings_by_host' = FetchAllFindings(findings, args.target, args.min_findings)
    /\ IF findings_by_host' = <<>> THEN Return(1)
       ELSE pc' = "slice" /\ UNCHANGED exit_code
    /\ UNCHANGED <<findings, chains_table, txn, args, i, batch, all_chains, k,
                   count, calls, blog, saved, base, outs, env>>

(***************************************************************************)
(* analyze_vulnerability_chains: the batch loop                            *)
(***************************************************************************)
\* a slice that runs one host into the next batch
Slice_OneTooMany(host_items, from) ==
    SubSeq(host_items, from + 1, Min(from + batch_size + 1, Len(host_items)))

\* host_items[i:i+batch_size], i counted from 0
Slice(host_items, from) ==
    SubSeq(host_items, from + 1, Min(from + batch_size, Len(host_items)))

\* the loop still has a batch: range(0, len(host_items), batch_size)
HasBatch(host_items, from) == from < Len(host_items)

FormBatch ==
    /\ pc = "slice"
    /\ HasBatch(findings_by_host, i)
    /\ batch' = Slice(findings_by_host, i)
    /\ pc' = "call"
    /\ UNCHANGED <<findings, chains_table, txn, args, findings_by_host, i,
                   all_chains, k, count, exit_code, calls, blog, saved, base, outs, env>>

\* the try block for one batch with response r, its except clause, and the
\* step of the loop
Dispatch(r) ==
    /\ pc = "call"
    /\ (credential = "invalid") <=> (r = AuthFailure)
    /\ Len(all_chains) + Len(Extracted(r)) <= MaxAllChains
    /\ all_chains' = all_chains \o Extracted(r)
    /\ blog' = Append(blog, [batch |-> batch, resp |-> r, failed |-> Raises(r),
                             got |-> Extracted(r)])
    /\ calls' = calls + 1
    /\ i' = i + batch_size
    /\ pc' = "slice"
    /\ UNCHANGED <<findings, chains_table, txn, args, findings_by_host, batch,
                   k, count, exit_code, saved, base, outs, env>>

DispatchBatch ==
    \E r \in ResponsePool \cup NullSeverityResponses \cup {AuthFailure} : Dispatch(r)

\* the analysis capability is down: every call fails
DispatchDown == Dispatch(TransportError) \/ Dispatch(AuthFailure)

\* the loop is over: return all_chains; main returns 0 when it is empty
AnalyzeReturn ==
    /\ pc = "slice"
    /\ ~HasBatch(findings_by_host, i)
    /\ IF all_chains = <<>> THEN Return(0)
       ELSE pc' = "save" /\ UNCHANGED exit_code
    /\ UNCHANGED <<findings, chains_table, txn, args, findings_by_host, i, batch,
                   all_chains, k, count, calls, blog, saved, base, outs, env>>

(***************************************************************************)
(* save_chain_analysis                                                     *)
(***************************************************************************)
SaveChainAnalysis ==
    /\ pc = "save"
    /\ json_file' = <<[target |-> args.target, analysis_date |-> now,
                       chains |-> all_chains]>>
    /\ pc' = "open"
    /\ UNCHANGED <<findings, chains_table, txn, args, findings_by_host, i, batch,
                   all_chains, k, count, exit_code, calls, blog, saved, base,
                   report_file, roi_log, env>>

(***************************************************************************)
(* update_database_with_chains                                             *)
(***************************************************************************)
\* connect, CREATE TABLE IF NOT EXISTS, count = 0
OpenStore ==
    /\ pc = "open"
    /\ txn' = <<>>
    /\ count' = 0
    /\ k' = 1
    /\ pc' = "insert"
    /\ UNCHANGED <<findings, chains_table, args, findings_by_host, i, batch,
                   all_chains, exit_code, calls, blog, saved, base, outs, env>>

\* one iteration of "for chain in chains": the INSERT, or the except clause
InsertChain ==
    /\ pc = "insert"
    /\ k <= Len(all_chains)
    /\ IF InsertRaises(all_chains[k])
       THEN /\ saved' = Append(saved, FALSE)
            /\ UNCHANGED <<txn, count>>
       ELSE /\ txn' = Append(txn, ChainRow(all_chains[k], args.target))
            /\ count' = count + 1
            /\ saved' = Append(saved, TRUE)
    /\ k' = k + 1
    /\ UNCHANGED <<findings, chains_table, pc, args, findings_by_host, i, batch,
                   all_chains, exit_code, calls, blog, base, outs, env>>

\* conn.commit(), conn.close(), return count
Commit ==
    /\ pc = "insert"
    /\ k > Len(all_chains)
    /\ chains_table' = chains_table \o txn
    /\ txn' = <<>>
    /\ pc' = "report"
    /\ UNCHANGED <<findings, args, findings_by_host, i, batch, all_chains, k,
                   count, exit_code, calls, blog, saved, base, outs, env>>

(***************************************************************************)
(* generate_markdown_report                                                *)
(***************************************************************************)
\* zip(finding_ids, original_severities)
Zip(a, b) == [j \in 1..Min(Len(a), Len(b)) |-> <<a[j], b[j]>>]

ReportSection(chain) ==
    [host |-> chain.host, combined_severity |-> chain.combined_severity,
     components |-> Zip(chain.finding_ids, chain.original_severities)]

\* chain.get on an element that is a str raises; nothing catches it before
\* the handler at the bottom of the script, which exits with 1
ReportRaises(chains) == \E j \in 1..Len(chains) : chains[j].kind # "dict"

GenerateReport ==
    /\ pc = "report"
    /\ IF ReportRaises(all_chains)
       THEN Return(1) /\ UNCHANGED report_file
       ELSE /\ report_file' = <<[target |-> args.target, generated_on |-> now,
                                sections |-> [j \in 1..Len(all_chains) |->
                                                 ReportSection(all_chains[j])]]>>
            /\ pc' = "roi"
            /\ UNCHANGED exit_code
    /\ UNCHANGED <<findings, chains_table, txn, args, findings_by_host, i, batch,
                   all_chains, k, count, calls, blog, saved, base, json_file,
                   roi_log, env>>

(***************************************************************************)
(* analyze_chain_roi                                                       *)
(***************************************************************************)
\* str.lower() on the severity strings of the model
Lower(s) == IF s = "HIGH" THEN "high" ELSE s

RoiMin(sev) == CASE sev = "low" -> 50 [] sev = "medium" -> 250
                 [] sev = "high" -> 1500 [] sev = "critical" -> 5000
RoiMax(sev) == CASE sev = "low" -> 250 [] sev = "medium" -> 1500
                 [] sev = "high" -> 5000 [] sev = "critical" -> 25000

SeverityValues == {"low", "medium", "high", "critical"}

RoiLine(chain) ==
    LET severity == Lower(chain.combined_severity)
    IN IF severity \in SeverityValues
       THEN [known |-> TRUE, min |-> RoiMin(severity), max |-> RoiMax(severity)]
       ELSE [known |-> FALSE, min |-> 0, max |-> 0]

\* chain.get on a str, or .lower() on a severity that is not a str, raises;
\* nothing catches it before the handler at the bottom of the script
RoiRaises(chain) == chain.kind # "dict" \/ chain.combined_severity = Null

\* the chains the loop gets through: all, or those before the first raise
RoiReach(chains) ==
    IF \E j \in 1..Len(chains) : RoiRaises(chains[j])
    THEN (CHOOSE j \in 1..Len(chains) :
              RoiRaises(chains[j]) /\ \A m \in 1..(j - 1) : ~RoiRaises(chains[m])) - 1
    ELSE Len(chains)

AnalyzeChainRoi ==
    /\ pc = "roi"
    /\ roi_log' = [j \in 1..RoiReach(all_chains) |-> RoiLine(all_chains[j])]
    /\ IF RoiReach(all_chains) < Len(all_chains) THEN Return(1) ELSE Return(0)
    /\ UNCHANGED <<findings, chains_table, txn, args, findings_by_host, i, batch,
                   all_chains, k, count, calls, blog, saved, base, json_file,
                   report_file, env>>

(***************************************************************************)
(* Specifications                                                          *)
(***************************************************************************)
Next == \/ StartRun
        \/ FetchFindings
        \/ FormBatch
        \/ DispatchBatch
        \/ AnalyzeReturn
        \/ SaveChainAnalysis
        \/ OpenStore
        \/ InsertChain
        \/ Commit
        \/ GenerateReport
        \/ AnalyzeChainRoi

Spec == Init /\ [][Next]_vars

\* time passes between two runs (a run reads the clock as one instant)
Tick ==
    /\ pc \in {"idle", "done"}
    /\ now < MaxClock
    /\ now' = now + 1
    /\ UNCHANGED <<findings, chains_table, txn, pc, args, findings_by_host, i,
                   batch, all_chains, k, count, exit_code, calls, blog, saved,
                   base, outs, credential, interrupted>>

\* runs on the scenario store at different times
InitClock == findings = StoreScenario /\ InitRun

NextClock == Next \/ Tick

SpecClock == InitClock /\ [][NextClock]_vars

\* KeyboardInterrupt while main() runs: "except Exception" in the batch loop
\* and in the insert loop does not catch it, the handler at the bottom of the
\* script prints and exits with 0; the connection is dropped without
\* commit(), so the pending INSERTs are rolled back
Interrupt ==
    /\ pc \in {"fetch", "slice", "call", "save", "open", "insert", "report", "roi"}
    /\ interrupted' = pc
    /\ txn' = <<>>
    /\ Return(0)
    /\ UNCHANGED <<findings, chains_table, args, findings_by_host, i, batch,
                   all_chains, k, count, calls, blog, saved, base, outs,
                   credential, now>>

\* runs on the scenario store that the user may interrupt
InitCancel == findings = StoreScenario /\ InitRun

NextCancel == Next \/ Interrupt

SpecCancel == InitCancel /\ [][NextCancel]_vars

\* fetch_all_findings over every small store
NextFetch == StartRun \/ FetchFindings

SpecFetch == InitFetch /\ [][NextFetch]_vars

\* the batch loop over stores of many hosts, the analysis capability down
NextBatch == StartRun \/ FetchFindings \/ FormBatch \/ DispatchDown \/ AnalyzeReturn

SpecBatch == InitBatch /\ [][NextBatch]_vars

(***************************************************************************)
(* Reading the store back: finding_ids TEXT -> the ids it lists            *)
(***************************************************************************)
DigitVal(d) == CHOOSE n \in 0..9 : Digits[n + 1] = d

RECURSIVE ParseInt(_)
ParseInt(text) == IF text = <<>> THEN 0
                  ELSE 10 * ParseInt(Front(text)) + DigitVal(text[Len(text)])

\* the fields of a comma-separated text; the empty text has none
RECURSIVE SplitComma(_)
SplitComma(text) ==
    IF text = <<>> THEN <<>>
    ELSE IF \E j \in 1..Len(text) : text[j] = ","
    THEN LET j == CHOOSE j \in 1..Len(text) :
                      text[j] = "," /\ \A m \in 1..(j - 1) : text[m] # ","
         IN <<SubSeq(text, 1, j - 1)>> \o SplitComma(SubSeq(text, j + 1, Len(text)))
    ELSE <<text>>

RowIds(row) == LET fields == SplitComma(row.finding_ids)
               IN [j \in 1..Len(fields) |-> ParseInt(fields[j])]

Range(s) == {s[j] : j \in 1..Len(s)}

RECURSIVE Flatten(_)
Flatten(seqs) == IF seqs = <<>> THEN <<>> ELSE seqs[1] \o Flatten(Tail(seqs))

\* ascending order of a sequence of numbers
RECURSIVE Sorted(_)
Sorted(s) ==
    IF s = <<>> THEN <<>>
    ELSE LET m == CHOOSE j \in 1..Len(s) : \A n \in 1..Len(s) : s[j] <= s[n]
         IN <<s[m]>> \o Sorted(SubSeq(s, 1, m - 1) \o SubSeq(s, m + 1, Len(s)))

\* update_database_with_chains has committed in this run
Committed == /\ pc \in {"report", "roi", "done"} /\ k > 0 /\ k > Len(all_chains)
             /\ interrupted # "insert"

\* the rows this run committed
NewRows == IF Committed THEN (base + 1)..Len(chains_table) ELSE {}

\* analyze_vulnerability_chains has returned in this run
Analyzed ==
    \/ pc \in {"save", "open", "insert", "report", "roi"}
    \/ pc = "done" /\ findings_by_host # <<>> /\ ~HasBatch(findings_by_host, i)

\* fetch_all_findings has returned in this run
Fetched == \/ pc \notin {"idle", "fetch", "done"}
           \/ /\ pc = "done"
              /\ credential # "missing" /\ ~args.list /\ args.target # ""
              /\ interrupted # "fetch"

(***************************************************************************)
(* C1: persisting the same logical chain twice (same target, same host,    *)
(* identical sorted finding_ids), within one call or across two runs,      *)
(* leaves exactly one row for it in the chains table.                      *)
(***************************************************************************)
SameLogicalChain(a, b) ==
    /\ a.target = b.target
    /\ a.host = b.host
    /\ Sorted(RowIds(a)) = Sorted(RowIds(b))

C1_OneRowPerLogicalChain ==
    \A a, b \in 1..Len(chains_table) :
        a # b => ~SameLogicalChain(chains_table[a], chains_table[b])

(***************************************************************************)
(* C2: chain persistence for a batch is all-or-nothing: when the insert of *)
(* any chain of a batch fails, no chain of that batch is in the chains     *)
(* table after the operation.                                              *)
(***************************************************************************)
\* positions in all_chains of the chains that batch b contributed
BatchPositions(b) ==
    LET before == Len(Flatten([j \in 1..(b - 1) |-> blog[j].got]))
    IN (before + 1)..(before + Len(blog[b].got))

C2_BatchAllOrNothing ==
    Committed =>
        \A b \in 1..Len(blog) :
            (\E p \in BatchPositions(b) : ~saved[p])
                => (\A p \in BatchPositions(b) : ~saved[p])

(***************************************************************************)
(* C3: after a run, every triaged finding whose id is in the finding_ids   *)
(* of a persisted chain has status chained, and a finding that no          *)
(* persisted chain references has not left status triaged.                 *)
(***************************************************************************)
Referenced(id) ==
    \E r \in 1..Len(chains_table) : id \in Range(RowIds(chains_table[r]))

C3_ReferencedFindingsChained ==
    pc = "done" =>
        \A j \in 1..Len(findings) :
            IF Referenced(findings[j].id)
            THEN findings[j].status # "triaged"
            ELSE findings[j].status # "chained"

(***************************************************************************)
(* C4: fetch_all_findings returns, for the target, a mapping built only    *)
(* from the target's triaged findings, in which every host has at least    *)
(* min_findings findings: a host with fewer is absent, a host with that    *)
(* many is present once, with all of its triaged findings.                 *)
(***************************************************************************)
AllHosts == Range(HostNames)

\* ids of the triaged findings of the run's target on host h, from the table
TriagedOn(h) ==
    {findings[j].id : j \in {m \in 1..Len(findings) :
        /\ findings[m].target = args.target
        /\ findings[m].status = "triaged"
        /\ findings[m].host = h}}

ItemsOf(h) == {j \in 1..Len(findings_by_host) : findings_by_host[j].host = h}

C4_FetchGroupsAndFilters ==
    Fetched =>
        /\ \A j \in 1..Len(findings_by_host) :
               Len(findings_by_host[j].findings) >= args.min_findings
        /\ \A h \in AllHosts :
               IF Cardinality(TriagedOn(h)) >= args.min_findings
               THEN /\ Cardinality(ItemsOf(h)) = 1
                    /\ \A j \in ItemsOf(h) :
                          /\ Range(findings_by_host[j].findings) = TriagedOn(h)
                          /\ Len(findings_by_host[j].findings)
                                 = Cardinality(TriagedOn(h))
               ELSE ItemsOf(h) = {}

\* a fetch that kept one host and dropped another that has a triaged finding
C4_Witness ==
    /\ Fetched
    /\ \E h \in AllHosts : ItemsOf(h) # {}
    /\ \E h \in AllHosts : ItemsOf(h) = {} /\ TriagedOn(h) # {}

(***************************************************************************)
(* C5: the batches of analyze_vulnerability_chains partition the filtered  *)
(* hosts: every host is in exactly one batch, no batch has more than       *)
(* batch_size hosts, and the batches in dispatch order, concatenated, are  *)
(* the host order of the input mapping.                                    *)
(***************************************************************************)
Batches == [b \in 1..Len(blog) |-> blog[b].batch]

C5_BatchesPartitionHosts ==
    Analyzed =>
        /\ Flatten(Batches) = findings_by_host
        /\ \A b \in 1..Len(Batches) :
               Len(Batches[b]) >= 1 /\ Len(Batches[b]) <= batch_size
        /\ \A j \in 1..Len(findings_by_host) :
               Cardinality({<<b, m>> \in (1..Len(Batches)) \X (1..batch_size) :
                               /\ m <= Len(Batches[b])
                               /\ Batches[b][m].host = findings_by_host[j].host})
                   = 1

\* a finished loop of three batches, the last one not full
C5_Witness ==
    /\ Analyzed
    /\ Len(blog) = 3
    /\ Len(blog[3].batch) < batch_size

(***************************************************************************)
(* C6: for the same list of candidate chains, the response                 *)
(* {"chains": [...]} and the response that is the bare array yield the     *)
(* same extracted chains for the batch; neither is treated as a failure.   *)
(***************************************************************************)
C6_ArrayLikeChainsObject ==
    \A b \in 1..Len(blog) :
        blog[b].resp.t = "array" =>
            LET asObject == Object(JList(blog[b].resp.items), JMissing)
            IN /\ ~Raises(asObject)
               /\ ~blog[b].failed
               /\ blog[b].got = Extracted(asObject)

(***************************************************************************)
(* C7: each id in the finding_ids of a persisted chain is the id of an     *)
(* existing finding of the same target.                                    *)
(***************************************************************************)
C7_PersistedIdsExist ==
    \A r \in 1..Len(chains_table) :
        \A id \in Range(RowIds(chains_table[r])) :
            \E j \in 1..Len(findings) :
                /\ findings[j].id = id
                /\ findings[j].target = chains_table[r].target

(***************************************************************************)
(* C8: every persisted chain references at least min_findings findings.    *)
(***************************************************************************)
C8_PersistedChainSize ==
    \A r \in NewRows : Len(RowIds(chains_table[r])) >= args.min_findings

(***************************************************************************)
(* C9: every persisted chain has a combined_severity that is one of low,   *)
(* medium, high, critical, in lower case.                                  *)
(***************************************************************************)
AcceptedSeverities == {"low", "medium", "high", "critical"}

C9_PersistedSeverity ==
    \A r \in 1..Len(chains_table) :
        chains_table[r].combined_severity \in AcceptedSeverities

(***************************************************************************)
(* C10: a soft failure on one batch (non-JSON content, JSON of an          *)
(* unaccepted shape, a transport error) skips only that batch: every       *)
(* batch is dispatched, and the chains returned are the concatenation, in  *)
(* batch order, of the chains of the batches that succeeded.               *)
(***************************************************************************)
\* an object with a chains or results array, or a bare array
AcceptedShape(r) ==
    \/ r.t = "array"
    \/ r.t = "object" /\ (r.chains.jt = "list" \/ r.results.jt = "list")

\* the chains an accepted response carries
CarriedChains(r) == IF r.t = "array" THEN r.items ELSE PickChains(r).items

SucceededChains(r) == IF AcceptedShape(r) THEN CarriedChains(r) ELSE <<>>

NumBatches(n) == (n + batch_size - 1) \div batch_size

\* after a failed batch, the batches after it are dispatched all the same
LaterBatchesDispatched == Analyzed => Len(blog) = NumBatches(Len(findings_by_host))

C10_SoftFailureSkipsOnlyBatch ==
    Analyzed =>
        /\ Len(blog) = NumBatches(Len(findings_by_host))
        /\ all_chains = Flatten([b \in 1..Len(blog) |-> SucceededChains(blog[b].resp)])

(***************************************************************************)
(* C11: an authentication or configuration failure of the analysis         *)
(* capability (missing or invalid credential) is a hard failure: the run   *)
(* aborts at once with a non-zero exit, no batch is dispatched after the   *)
(* failure was observed, and nothing is written to the store.              *)
(***************************************************************************)
AuthObserved == \E b \in 1..Len(blog) : blog[b].resp.t = "auth"

C11_AuthFailureAborts ==
    /\ credential = "missing" /\ pc # "idle" =>
           pc = "done" /\ exit_code # 0 /\ blog = <<>>
    /\ AuthObserved =>
           /\ \A b \in 1..Len(blog) : blog[b].resp.t = "auth" => b = Len(blog)
           /\ pc = "done" => exit_code # 0
           /\ Len(chains_table) = base

(***************************************************************************)
(* C12: the run exits with code 0 whenever it succeeds or has nothing to   *)
(* do (--list, a target with no triaged findings or no host that reaches   *)
(* min_findings, no chains identified), and with code 1 only on a hard     *)
(* failure (no target specified, the analysis capability not configured).  *)
(***************************************************************************)
HardFailure == \/ credential = "missing"
               \/ ~args.list /\ args.target = ""

C12_ExitCodes ==
    pc = "done" =>
        /\ HardFailure => exit_code = 1
        /\ ~HardFailure /\ credential = "valid" => exit_code = 0

(***************************************************************************)
(* C13: for every chain, the ROI estimate is the fixed range of its        *)
(* combined_severity looked up case-insensitively (low 50-250, medium      *)
(* 250-1500, high 1500-5000, critical 5000-25000); an unknown or missing   *)
(* severity yields N/A without failing or stopping the estimates of the    *)
(* remaining chains.                                                       *)
(***************************************************************************)
\* the severity in lower case, of the severities of the model
CaseFolded(sev) == CASE sev = "HIGH" -> "high" [] OTHER -> sev

ExpectedRoi(chain) ==
    LET sev == CaseFolded(chain.combined_severity)
    IN CASE sev = "low" -> [known |-> TRUE, min |-> 50, max |-> 250]
         [] sev = "medium" -> [known |-> TRUE, min |-> 250, max |-> 1500]
         [] sev = "high" -> [known |-> TRUE, min |-> 1500, max |-> 5000]
         [] sev = "critical" -> [known |-> TRUE, min |-> 5000, max |-> 25000]
         [] OTHER -> [known |-> FALSE, min |-> 0, max |-> 0]

\* the run got to analyze_chain_roi and left it
RoiDone == /\ pc = "done" /\ interrupted = ""
           /\ Committed /\ ~ReportRaises(all_chains)

C13_RoiEstimates ==
    RoiDone =>
        /\ Len(roi_log) = Len(all_chains)
        /\ \A j \in 1..Len(roi_log) : roi_log[j] = ExpectedRoi(all_chains[j])

\* what does hold: the estimates of the chains whose severity is a string
C13_RoiOfStringSeverities ==
    RoiDone /\ (\A j \in 1..Len(all_chains) : ~RoiRaises(all_chains[j])) =>
        /\ Len(roi_log) = Len(all_chains)
        /\ \A j \in 1..Len(roi_log) : roi_log[j] = ExpectedRoi(all_chains[j])

(***************************************************************************)
(* C14: the report synthesizer is deterministic: two runs over identical   *)
(* chain sets for a target produce identical JSON and Markdown documents,  *)
(* whatever the time of the run.                                           *)
(***************************************************************************)
\* save_chain_analysis runs over the chains the document on disk was made of
SavesSameChains ==
    /\ pc = "save" /\ pc' = "open"
    /\ json_file # <<>>
    /\ json_file[1].target = args.target
    /\ json_file[1].chains = all_chains

\* generate_markdown_report runs over the chains the report on disk was made of
ReportsSameChains ==
    /\ pc = "report" /\ pc' = "roi"
    /\ report_file # <<>>
    /\ report_file[1].target = args.target
    /\ report_file[1].sections
           = [j \in 1..Len(all_chains) |-> ReportSection(all_chains[j])]

C14_ReportDeterministic ==
    [][/\ SavesSameChains => json_file' = json_file
       /\ ReportsSameChains => report_file' = report_file]_vars

(***************************************************************************)
(* C15: every persisted chain has equally many finding_ids and             *)
(* original_severities: when the two sequences of a candidate differ in    *)
(* length, both are cut to the shorter length before persistence.          *)
(***************************************************************************)
RowSeverities(row) == SplitComma(row.original_severities)

C15_IdsAlignWithSeverities ==
    \A r \in 1..Len(chains_table) :
        Len(RowIds(chains_table[r])) = Len(RowSeverities(chains_table[r]))

(***************************************************************************)
(* C16: a user interrupt arriving at any point of a run stops the dispatch *)
(* of further batches and never leaves a partially persisted batch: after  *)
(* cancellation the chains table holds either all or none of the chains of *)
(* each batch, also when the interrupt arrives in the middle of the insert *)
(* loop.                                                                   *)
(***************************************************************************)
Cancelled == interrupted # ""

\* the interrupt arrived before conn.commit()
CancelledBeforeCommit ==
    interrupted \in {"fetch", "slice", "call", "save", "open", "insert"}

\* the chain at position p of all_chains is in the chains table
Persisted(p) == Committed /\ p \in 1..Len(saved) /\ saved[p]

C16_CancelBeforeCommitPersistsNothing ==
    CancelledBeforeCommit =>
        /\ pc = "done"
        /\ txn = <<>>
        /\ Len(chains_table) = base
        /\ \A p \in 1..Len(all_chains) : ~Persisted(p)

\* an interrupt in the middle of the insert loop, rows already inserted
C16_MidInsertReached ==
    interrupted = "insert" /\ count > 0 /\ k <= Len(all_chains)

====
